---- MODULE Spec2Model ----
(***************************************************************************)
(* Model of src/hierarchy.cpp of xeert: the certificate hierarchy builder. *)
(*                                                                         *)
(* compute_hierarchy prunes byte-identical certificates, draws the         *)
(* parent/child relationships with is_issuer, and breaks circular          *)
(* dependencies with find_loop / break_loop.                               *)
(*                                                                         *)
(* A certificate of the vector is named by its position (its address in    *)
(* the vector, which is stable once prune_duplicates has returned).  The   *)
(* range-for of find_and_break_loops iterates BY VALUE: the start node of  *)
(* find_loop is the address of a local copy, written Local below, that is  *)
(* no element of the vector.                                               *)
(***************************************************************************)
EXTENDS Integers, Sequences, FiniteSets, TLC

\* Bound of the model: the greatest number of certificates given to
\* compute_hierarchy.
MaxCerts == 3

\* Distinguished names and key identifier byte strings of the inputs.
Names == {"CN=ca1", "CN=ca2"}
KeyIds == {<<>>, <<1>>, <<2>>}

\* oid_get_id("id-ce-authorityKeyIdentifier"), oid_get_id("id-ce-subjectKeyIdentifier")
AKI == "id-ce-authorityKeyIdentifier"
SKI == "id-ce-subjectKeyIdentifier"

\* An optional extension value: {} (extension absent) or {value}.
Optional(S) == {{}} \cup {{x} : x \in S}

\* tbs_certificate.extensions.items: a map from the OIDs present to their
\* values (AuthorityKeyIdentifier is a structure, SubjectKeyIdentifier a
\* byte string).
Extensions(aki, ski) ==
    [o \in {x \in {AKI} : aki # {}} \cup {x \in {SKI} : ski # {}} |->
        IF o = AKI THEN [key_identifier |-> CHOOSE b \in aki : TRUE]
                   ELSE CHOOSE b \in ski : TRUE]

\* A parsed certificate.  der_bytes is the encoding of the whole content.
Certificate(subject, issuer, aki, ski) ==
    [der_bytes  |-> <<subject, issuer, aki, ski>>,
     subject    |-> subject,
     issuer     |-> issuer,
     extensions |-> Extensions(aki, ski)]

\* The certificates is_issuer is queried with.
AllCertificates ==
    {Certificate(s, i, a, k) : s \in Names, i \in Names,
                               a \in Optional(KeyIds), k \in Optional(KeyIds)}

\* The certificates compute_hierarchy is run on: every pair of names without
\* key identifiers and, for the self-issued name, every combination of an
\* optional authority key identifier with an optional subject key identifier
\* (three of them without authorityKeyIdentifier, so that any three can
\* issue each other).
InputCertificates ==
    {Certificate(s, i, {}, {}) : s \in Names, i \in Names}
    \cup {Certificate("CN=ca1", "CN=ca1", a, k) :
                a \in Optional({<<1>>}), k \in Optional({<<1>>, <<2>>})}

\* The address of the loop variable `cert` of find_and_break_loops.
Local == 0

VARIABLES
    certs,      \* the vector of certificates (content only)
    children,   \* children[n]: the set `children` of the certificate at position n
    parents,    \* parents[n]: the set `parents` of the certificate at position n
    pc,         \* position in compute_hierarchy
    cert1,      \* iterator cert1 of prune_duplicates / compute_hierarchy
    cert2,      \* iterator cert2 of prune_duplicates / compute_hierarchy
    second,     \* build loop body: FALSE before line 229, TRUE before line 233
    cert,       \* find_and_break_loops: position iterated over
    local,      \* find_and_break_loops: the copy `cert` (its children, parents)
    loop,       \* find_and_break_loops: the list returned by find_loop
    input,      \* history: the vector compute_hierarchy was called with
    verified,   \* history: <<issuer, child, answer>> of each x509_verify_signature call
    built,      \* history: the edges at the end of the build phase
    query       \* the is_issuer query of the standalone specification

vars == <<certs, children, parents, pc, cert1, cert2, second, cert, local, loop,
          input, verified, built, query>>

----------------------------------------------------------------------------
(* is_issuer, lines 28-68 *)

\* KeyIdentifiersMatch without the test of line 39: an empty key identifier
\* is compared like any other.
KeyIdentifiersMatchNoEmptyTest(cert_issuer, cert_child) ==
    IF AKI \in DOMAIN cert_child.extensions
    THEN LET akid == cert_child.extensions[AKI]
         IN  IF SKI \notin DOMAIN cert_issuer.extensions
             THEN FALSE
             ELSE IF cert_issuer.extensions[SKI] # akid.key_identifier
                  THEN FALSE
                  ELSE TRUE
    ELSE TRUE

\* Lines 35-57: FALSE when the child names an authority key identifier that
\* the issuer does not carry as its subject key identifier.
KeyIdentifiersMatch(cert_issuer, cert_child) ==
    IF AKI \in DOMAIN cert_child.extensions
    THEN LET akid == cert_child.extensions[AKI]
         IN  IF Len(akid.key_identifier) # 0
             THEN IF SKI \notin DOMAIN cert_issuer.extensions
                  THEN FALSE
                  ELSE IF cert_issuer.extensions[SKI] # akid.key_identifier
                       THEN FALSE
                       ELSE TRUE
             ELSE TRUE
    ELSE TRUE

\* Lines 30-60: control reaches the call of x509_verify_signature.
CallsVerify(cert_issuer, cert_child) ==
    /\ ~(cert_issuer.subject # cert_child.issuer)
    /\ KeyIdentifiersMatch(cert_issuer, cert_child)

\* is_issuer with the name test of line 30 the wrong way round: the issuer's
\* issuer against the child's subject.
is_issuer_names_swapped(cert_issuer, cert_child, signature_ok) ==
    IF cert_issuer.issuer # cert_child.subject
    THEN FALSE
    ELSE IF ~KeyIdentifiersMatch(cert_issuer, cert_child)
         THEN FALSE
         ELSE IF ~signature_ok
              THEN FALSE
              ELSE TRUE

\* signature_ok is the answer of x509_verify_signature(cert_issuer, cert_child).
is_issuer(cert_issuer, cert_child, signature_ok) ==
    IF cert_issuer.subject # cert_child.issuer
    THEN FALSE
    ELSE IF ~KeyIdentifiersMatch(cert_issuer, cert_child)
         THEN FALSE
         ELSE IF ~signature_ok
              THEN FALSE
              ELSE TRUE

\* is_self_signed as a test of the names alone (self-issued).
is_self_signed_by_name(c, signature_ok) == ~(c.subject # c.issuer)

\* Lines 70-73.
is_self_signed(c, signature_ok) == is_issuer(c, c, signature_ok)

----------------------------------------------------------------------------
(* Graph helpers *)

Nodes == 1..Len(certs)

\* The children relation as a set of edges <<parent, child>>.
EdgesOf(ch) == {e \in (DOMAIN ch) \X (DOMAIN ch) : e[2] \in ch[e[1]]}
Edges == EdgesOf(children)

\* The edges recorded on the child side (the parents sets).
ParentEdges == {e \in (DOMAIN parents) \X (DOMAIN parents) : e[1] \in parents[e[2]]}

NoLinks(n) == [x \in 1..n |-> {}]

----------------------------------------------------------------------------
(* Start of compute_hierarchy *)

NoQuery ==
    LET c == Certificate("CN=ca1", "CN=ca1", {}, {})
    IN  [cert_issuer |-> c, cert_child |-> c, signature_ok |-> FALSE,
         self |-> FALSE, returned |-> FALSE, result |-> FALSE]

\* compute_hierarchy is called with any vector of at most MaxCerts parsed
\* certificates; no certificate has links yet.
Init ==
    /\ \E n \in 0..MaxCerts : certs \in [1..n -> InputCertificates]
    /\ children = NoLinks(Len(certs))
    /\ parents = NoLinks(Len(certs))
    /\ pc = "prune"
    /\ cert1 = 1
    /\ cert2 = 2
    /\ second = FALSE
    /\ cert = 1
    /\ local = [children |-> {}, parents |-> {}]
    /\ loop = <<>>
    /\ input = certs
    /\ verified = {}
    /\ built = {}
    /\ query = NoQuery

----------------------------------------------------------------------------
(* prune_duplicates, lines 75-92 *)

\* Line 81 comparing the subjects instead of the encoded bytes.
SameSubject(c1, c2) == c1.subject = c2.subject

\* Line 81.
SameCertificate(c1, c2) == c1.der_bytes = c2.der_bytes

\* std::vector::erase at position pos; the elements behind move down.
erase(v, pos) == SubSeq(v, 1, pos - 1) \o SubSeq(v, pos + 1, Len(v))

\* Lines 80-90: one iteration of the inner loop.
prune_compare ==
    /\ pc = "prune"
    /\ cert1 <= Len(certs)
    /\ cert2 <= Len(certs)
    /\ IF SameCertificate(certs[cert1], certs[cert2])
       THEN /\ certs' = erase(certs, cert2)
            /\ children' = erase(children, cert2)
            /\ parents' = erase(parents, cert2)
            /\ UNCHANGED cert2
       ELSE /\ cert2' = cert2 + 1
            /\ UNCHANGED <<certs, children, parents>>
    /\ UNCHANGED <<pc, cert1, second, cert, local, loop, input, verified, built, query>>

\* Lines 79-80: the inner loop is over, cert1++.
prune_next ==
    /\ pc = "prune"
    /\ cert1 <= Len(certs)
    /\ cert2 > Len(certs)
    /\ cert1' = cert1 + 1
    /\ cert2' = cert1 + 2
    /\ UNCHANGED <<certs, children, parents, pc, second, cert, local, loop,
                   input, verified, built, query>>

\* Line 79: cert1 == end; lines 225-227: the build loops start.
prune_return ==
    /\ pc = "prune"
    /\ cert1 > Len(certs)
    /\ pc' = "build"
    /\ cert1' = 1
    /\ cert2' = 2
    /\ UNCHANGED <<certs, children, parents, second, cert, local, loop,
                   input, verified, built, query>>

----------------------------------------------------------------------------
(* mark_issuer, lines 94-98, and the build loops, lines 225-241 *)

\* mark_issuer with the two sets exchanged: the issuer entered as the child.
mark_issuer_reversed(g, issuer, issued) ==
    [children |-> [g.children EXCEPT ![issued] = @ \cup {issuer}],
     parents  |-> [g.parents  EXCEPT ![issuer] = @ \cup {issued}]]

\* mark_issuer taking its arguments by value: the addresses entered are those
\* of copies, not of elements of the vector.
mark_issuer_by_value(g, issuer, issued) ==
    [children |-> [g.children EXCEPT ![issuer] = @ \cup {Local}],
     parents  |-> [g.parents  EXCEPT ![issued] = @ \cup {Local}]]

mark_issuer(g, issuer, issued) ==
    [children |-> [g.children EXCEPT ![issuer] = @ \cup {issued}],
     parents  |-> [g.parents  EXCEPT ![issued] = @ \cup {issuer}]]

Links == [children |-> children, parents |-> parents]

\* One evaluation of `if (is_issuer(a, b)) mark_issuer(a, b)`.  The answer
\* of x509_verify_signature is any boolean; it is asked for only when the
\* names and key identifiers match.
draw(a, b) ==
    \E signature_ok \in BOOLEAN :
        /\ CallsVerify(certs[a], certs[b]) \/ ~signature_ok
        /\ verified' = IF CallsVerify(certs[a], certs[b])
                       THEN verified \cup {<<a, b, signature_ok>>}
                       ELSE verified
        /\ LET g == IF is_issuer(certs[a], certs[b], signature_ok)
                    THEN mark_issuer(Links, a, b)
                    ELSE Links
           IN  /\ children' = g.children
               /\ parents' = g.parents

\* Lines 229-232.
build_first ==
    /\ pc = "build"
    /\ cert1 <= Len(certs)
    /\ cert2 <= Len(certs)
    /\ ~second
    /\ draw(cert1, cert2)
    /\ second' = TRUE
    /\ UNCHANGED <<certs, pc, cert1, cert2, cert, local, loop, input, built, query>>

\* Lines 233-237.
build_second ==
    /\ pc = "build"
    /\ cert1 <= Len(certs)
    /\ cert2 <= Len(certs)
    /\ second
    /\ draw(cert2, cert1)
    /\ second' = FALSE
    /\ cert2' = cert2 + 1
    /\ UNCHANGED <<certs, pc, cert1, cert, local, loop, input, built, query>>

\* Lines 227-228, 239: the inner loop is over, cert1++.
build_next ==
    /\ pc = "build"
    /\ cert1 <= Len(certs)
    /\ cert2 > Len(certs)
    /\ cert1' = cert1 + 1
    /\ cert2' = cert1 + 2
    /\ UNCHANGED <<certs, children, parents, pc, second, cert, local, loop,
                   input, verified, built, query>>

\* Line 227: cert1 == end; line 244: find_and_break_loops is called.
build_done ==
    /\ pc = "build"
    /\ cert1 > Len(certs)
    /\ pc' = "for"
    /\ cert' = 1
    /\ built' = Edges
    /\ UNCHANGED <<certs, children, parents, cert1, cert2, second, local, loop,
                   input, verified, query>>

----------------------------------------------------------------------------
(* find_loop, lines 180-198 *)

\* ChildrenOf following the parents as well as the children.
ChildrenAndParentsOf(node, g, copy) ==
    IF node = Local THEN copy.children \cup copy.parents
                    ELSE g.children[node] \cup g.parents[node]

\* The children set read through a node address: the copy's own set for the
\* loop variable of find_and_break_loops, the vector element's otherwise.
ChildrenOf(node, g, copy) ==
    IF node = Local THEN copy.children ELSE g.children[node]

\* std::find: the first position of x in list, Len(list) + 1 (end) if none.
find(list, x) ==
    IF \E p \in 1..Len(list) : list[p] = x
    THEN CHOOSE p \in 1..Len(list) :
            list[p] = x /\ \A q \in 1..(p - 1) : list[q] # x
    ELSE Len(list) + 1

\* find_loop looking for the child at the front of the visited nodes only,
\* instead of anywhere in them (line 185).
RECURSIVE find_loop_front_only(_, _, _, _)
find_loop_front_only(node, visited_nodes, g, copy) ==
    LET visited == Append(visited_nodes, node)
    IN  UNION { IF child = visited[1]
                THEN {visited}
                ELSE IF find(visited, child) # Len(visited) + 1
                     THEN {}
                     ELSE find_loop_front_only(child, visited, g, copy)
                : child \in ChildrenOf(node, g, copy) }

\* find_loop without the recursion of line 193: only the children of the
\* start node are looked at.
find_loop_shallow(node, visited_nodes, g, copy) ==
    LET visited == Append(visited_nodes, node)
    IN  UNION { LET it == find(visited, child)
                IN  IF it # Len(visited) + 1
                    THEN {SubSeq(visited, it, Len(visited))}
                    ELSE {}
                : child \in ChildrenOf(node, g, copy) }

\* find_loop returning all the visited nodes instead of those from the
\* repeated node on (line 188).
RECURSIVE find_loop_whole_path(_, _, _, _)
find_loop_whole_path(node, visited_nodes, g, copy) ==
    LET visited == Append(visited_nodes, node)
    IN  UNION { LET it == find(visited, child)
                IN  IF it # Len(visited) + 1
                    THEN {visited}
                    ELSE find_loop_whole_path(child, visited, g, copy)
                : child \in ChildrenOf(node, g, copy) }

\* The non-empty lists find_loop(node, visited_nodes) can return, over the
\* iteration orders of the children sets; the empty set when it returns the
\* empty list.  Whether a child yields a loop does not depend on the order,
\* so the result is the loop of whichever loop-yielding child comes first.
RECURSIVE find_loop(_, _, _, _)
find_loop(node, visited_nodes, g, copy) ==
    LET visited == Append(visited_nodes, node)
    IN  UNION { LET it == find(visited, child)
                IN  IF it # Len(visited) + 1
                    THEN {SubSeq(visited, it, Len(visited))}
                    ELSE find_loop(child, visited, g, copy)
                : child \in ChildrenOf(node, g, copy) }

----------------------------------------------------------------------------
(* break_loop, lines 105-166 *)

\* The scan with >= for >: the last greatest element instead of the first.
RECURSIVE scan_last_greatest(_, _, _, _)
scan_last_greatest(list, sizes, it, target) ==
    IF it > Len(list)
    THEN target
    ELSE scan_last_greatest(list, sizes, it + 1,
              IF Cardinality(sizes[list[it]]) >= Cardinality(sizes[list[target]])
              THEN it ELSE target)

\* Lines 118-124 and 139-145: the scan `if (size(*it) > size(*target)) target = it`.
RECURSIVE scan(_, _, _, _)
scan(list, sizes, it, target) ==
    IF it > Len(list)
    THEN target
    ELSE scan(list, sizes, it + 1,
              IF Cardinality(sizes[list[it]]) > Cardinality(sizes[list[target]])
              THEN it ELSE target)

\* erase_link without the erase on the parent's side.
erase_link_child_side_only(g, p, x) ==
    [children |-> g.children,
     parents  |-> [g.parents EXCEPT ![x] = @ \ {p}]]

\* x->parents.erase(p); p->children.erase(x)
erase_link(g, p, x) ==
    [children |-> [g.children EXCEPT ![p] = @ \ {x}],
     parents  |-> [g.parents  EXCEPT ![x] = @ \ {p}]]

\* Lines 125-136.
most_parents(list, g) == scan(list, g.parents, 1, 1)
\* Lines 129-130 taking the front of the list whatever the target.
previous_front(list, target) == list[1]

previous(list, target) ==
    IF target = 1 THEN list[Len(list)] ELSE list[target - 1]

\* Lines 149-151 without the step to the next element: the target itself.
next_not_advanced(list, target) == list[target]

\* Lines 139-156.
most_children(list, g) == scan(list, g.children, 1, 1)
next(list, target) ==
    IF target + 1 = Len(list) + 1 THEN list[1] ELSE list[target + 1]

\* Lines 158-165 with first and last exchanged in the erase calls.
break_last_wrong_way(list, g) == erase_link(g, list[1], list[Len(list)])

\* Lines 158-165 turning the closing edge round instead of removing it.
break_last_reversing(list, g) ==
    LET first == list[1]
        last == list[Len(list)]
        h == erase_link(g, last, first)
    IN  [children |-> [h.children EXCEPT ![first] = @ \cup {last}],
         parents  |-> [h.parents  EXCEPT ![last] = @ \cup {first}]]

\* Lines 158-165, run on the links g.
break_last(list, g) == erase_link(g, list[Len(list)], list[1])

\* The links when break_loop(list) returns.  Branch 1 returns (line 135);
\* branch 2 has no return and runs on into lines 158-165.
break_loop(list, g) ==
    LET t1 == most_parents(list, g)
        t2 == most_children(list, g)
    IN  IF Cardinality(g.parents[list[t1]]) > 1
        THEN erase_link(g, previous(list, t1), list[t1])
        ELSE IF Cardinality(g.children[list[t2]]) > 1
             THEN break_last(list, erase_link(g, list[t2], next(list, t2)))
             ELSE break_last(list, g)

\* The LOGWARNING calls of break_loop(list), in order: "Ignoring <issued> as
\* a child of <issuer> (circular dependency <number>)", lines 131, 152, 162.
\* The text of line 162 carries the number 2.
warnings(list, g) ==
    LET t1 == most_parents(list, g)
        t2 == most_children(list, g)
        closing == [issued |-> list[1], issuer |-> list[Len(list)], number |-> 2]
    IN  IF Cardinality(g.parents[list[t1]]) > 1
        THEN << [issued |-> list[t1], issuer |-> previous(list, t1), number |-> 1] >>
        ELSE IF Cardinality(g.children[list[t2]]) > 1
             THEN << [issued |-> next(list, t2), issuer |-> list[t2], number |-> 2],
                     closing >>
             ELSE << closing >>

\* The branch whose condition holds: 1 (line 125), 2 (line 146), else 3.
branch(list, g) ==
    IF Cardinality(g.parents[list[most_parents(list, g)]]) > 1 THEN 1
    ELSE IF Cardinality(g.children[list[most_children(list, g)]]) > 1 THEN 2
    ELSE 3

----------------------------------------------------------------------------
(* find_and_break_loops, lines 200-210 *)

\* Line 202: `for (auto cert: certs)` copies the next element, its links
\* included, into the loop variable; at the end compute_hierarchy returns.
for_next ==
    /\ pc = "for"
    /\ IF cert <= Len(certs)
       THEN /\ local' = [children |-> children[cert], parents |-> parents[cert]]
            /\ pc' = "find"
       ELSE /\ pc' = "done"
            /\ UNCHANGED local
    /\ UNCHANGED <<certs, children, parents, cert1, cert2, second, cert, loop,
                   input, verified, built, query>>

\* Lines 204-206: find_loop(&cert, {}) and the test of its result.
find_step ==
    /\ pc = "find"
    /\ LET found == find_loop(Local, <<>>, Links, local)
       IN  IF found = {}
           THEN /\ pc' = "for"
                /\ cert' = cert + 1
                /\ UNCHANGED loop
           ELSE /\ \E l \in found : loop' = l
                /\ pc' = "break"
                /\ UNCHANGED cert
    /\ UNCHANGED <<certs, children, parents, cert1, cert2, second, local,
                   input, verified, built, query>>

\* Line 207: break_loop(loop); the assertion of line 110 aborts the program.
break_step ==
    /\ pc = "break"
    /\ IF Len(loop) >= 2
       THEN LET g == break_loop(loop, Links)
            IN  /\ children' = g.children
                /\ parents' = g.parents
                /\ pc' = "find"
       ELSE /\ pc' = "abort"
            /\ UNCHANGED <<children, parents>>
    /\ loop' = <<>>
    /\ UNCHANGED <<certs, cert1, cert2, second, cert, local,
                   input, verified, built, query>>

----------------------------------------------------------------------------
(* compute_hierarchy, lines 218-248 *)

Next ==
    \/ prune_compare
    \/ prune_next
    \/ prune_return
    \/ build_first
    \/ build_second
    \/ build_next
    \/ build_done
    \/ for_next
    \/ find_step
    \/ break_step

Spec == Init /\ [][Next]_vars

\* The program is sequential: it takes its next step until it returns.
FairSpec == Spec /\ WF_vars(Next)

----------------------------------------------------------------------------
(* is_issuer and is_self_signed called on their own *)

InitQuery ==
    /\ certs = <<>>
    /\ children = NoLinks(0)
    /\ parents = NoLinks(0)
    /\ pc = "query"
    /\ cert1 = 1
    /\ cert2 = 2
    /\ second = FALSE
    /\ cert = 1
    /\ local = [children |-> {}, parents |-> {}]
    /\ loop = <<>>
    /\ input = <<>>
    /\ verified = {}
    /\ built = {}
    /\ query \in [cert_issuer : AllCertificates, cert_child : AllCertificates,
                  signature_ok : BOOLEAN, self : {FALSE}, returned : {FALSE},
                  result : {FALSE}]

call_is_issuer ==
    /\ pc = "query"
    /\ ~query.returned
    /\ query' = [query EXCEPT
                    !.returned = TRUE,
                    !.result = is_issuer(query.cert_issuer, query.cert_child,
                                         query.signature_ok)]
    /\ UNCHANGED <<certs, children, parents, pc, cert1, cert2, second, cert,
                   local, loop, input, verified, built>>

\* is_self_signed(cert) with the first certificate of the query; the
\* arguments of the is_issuer call it makes are recorded.
call_is_self_signed ==
    /\ pc = "query"
    /\ ~query.returned
    /\ query' = [query EXCEPT
                    !.cert_child = query.cert_issuer,
                    !.self = TRUE,
                    !.returned = TRUE,
                    !.result = is_self_signed(query.cert_issuer, query.signature_ok)]
    /\ UNCHANGED <<certs, children, parents, pc, cert1, cert2, second, cert,
                   local, loop, input, verified, built>>

NextQuery ==
    \/ call_is_issuer
    \/ call_is_self_signed

SpecQuery == InitQuery /\ [][NextQuery]_vars

----------------------------------------------------------------------------
(* break_loop called on its own, on any loop that satisfies lines 102-103 *)

\* Bound of the model: the number of certificates of the graphs break_loop
\* is called on.
BreakNodes == 4

\* The vector of the graphs break_loop is called on.
BreakCerts ==
    [n \in 1..BreakNodes |-> Certificate("CN=ca1", "CN=ca1", {}, {<<n>>})]

\* Lines 102-103: the lists of at least 2 distinct nodes in which node n+1 is
\* a child of node n and the first node is a child of the last node.
Loops(ch) ==
    {l \in UNION {[1..k -> DOMAIN ch] : k \in 2..Len(ch)} :
        /\ \A p \in 1..Len(l), q \in 1..Len(l) : p # q => l[p] # l[q]
        /\ \A p \in 1..(Len(l) - 1) : l[p + 1] \in ch[l[p]]
        /\ l[1] \in ch[l[Len(l)]]}

\* find_and_break_loops is about to call break_loop (line 207) on a loop of
\* a graph whose parents sets mirror its children sets (mark_issuer) and in
\* which no node is its own child (lines 227-228).
InitBreak ==
    /\ certs = BreakCerts
    /\ children \in [1..BreakNodes -> SUBSET (1..BreakNodes)]
    /\ \A n \in 1..BreakNodes : n \notin children[n]
    /\ parents = [n \in 1..BreakNodes |-> {p \in 1..BreakNodes : n \in children[p]}]
    /\ loop \in Loops(children)
    /\ pc = "break"
    /\ cert1 = BreakNodes + 1
    /\ cert2 = BreakNodes + 2
    /\ second = FALSE
    /\ cert = 1
    /\ local = [children |-> children[1], parents |-> parents[1]]
    /\ input = certs
    /\ verified = {}
    /\ built = Edges
    /\ query = NoQuery

NextBreak == break_step

SpecBreak == InitBreak /\ [][NextBreak]_vars

----------------------------------------------------------------------------
(* Definitions used by the properties *)

\* The nodes reachable from the set S along the edges E, S included.
RECURSIVE Closure(_, _)
Closure(S, E) ==
    LET T == S \cup {e[2] : e \in {f \in E : f[1] \in S}}
    IN  IF T = S THEN S ELSE Closure(T, E)

\* The nodes reachable from n by at least one edge of E.
Descendants(n, E) == Closure({e[2] : e \in {f \in E : f[1] = n}}, E)

Acyclic(E) == \A e \in E : e[1] \notin Descendants(e[1], E)

\* x509_verify_signature was called on (a, b) and accepted.
Accepted(a, b) == <<a, b, TRUE>> \in verified

\* x509_verify_signature accepts (a, b) as far as the run tells: it was not
\* called on the pair and answered false.  The verifier is a function of the
\* two certificates, so the answer to a pair it was never called on is not
\* fixed by the run.
MayAccept(a, b) == <<a, b, FALSE>> \notin verified

\* The first occurrences, in order, of the raw identities of v.
RECURSIVE FirstOccurrences(_, _)
FirstOccurrences(v, kept) ==
    IF v = <<>>
    THEN kept
    ELSE FirstOccurrences(Tail(v),
            IF \E p \in 1..Len(kept) : kept[p].der_bytes = Head(v).der_bytes
            THEN kept
            ELSE Append(kept, Head(v)))

Repairing == pc \in {"for", "find", "break"}

----------------------------------------------------------------------------
(* Properties *)

\* C1: when compute_hierarchy returns, the children relation of the
\* surviving nodes has no directed cycle.
Acyclicity == pc = "done" => Acyclic(Edges)

\* C1 case: compute_hierarchy has returned from a run whose build phase
\* produced a cycle.
AcyclicityWitness == pc = "done" /\ ~Acyclic(built) /\ Acyclic(Edges)

\* C2 as claimed: every call of break_loop on a cycle deletes exactly one
\* edge, so the number of edges after the call is the number before minus one.
BreakDeletesExactlyOne ==
    [][pc = "break" => Cardinality(Edges') = Cardinality(Edges) - 1]_vars

\* C3: in every state from the start of edge building to the return of
\* compute_hierarchy, Y is in X.children if and only if X is in Y.parents.
EdgeSymmetry ==
    pc \in {"build", "for", "find", "break", "done"} =>
        \A X \in Nodes, Y \in Nodes : (Y \in children[X]) <=> (X \in parents[Y])

\* C3 case: an edge was inserted by the builder and another was deleted by
\* the cycle breaker.
EdgeSymmetryWitness ==
    /\ pc = "find"
    /\ Edges # {}
    /\ Edges # built
    /\ ParentEdges = Edges

\* The collection A, B, C with the built edges A->B, B->C, C->A.
ScenarioCBuilt ==
    /\ Len(certs) = 3
    /\ built = {<<1, 2>>, <<2, 3>>, <<3, 1>>}

\* C4 as claimed: in Scenario C the detector started at A returns the cycle
\* A, B, C, the breaker takes branch 3 and removes C->A, and A->B, B->C remain.
ScenarioC ==
    ScenarioCBuilt =>
        /\ (pc = "break" /\ cert = 1 /\ Edges = built) =>
                (loop = <<1, 2, 3>> /\ branch(loop, Links) = 3)
        /\ pc = "done" => Edges = {<<1, 2>>, <<2, 3>>}

\* C5: after prune_duplicates the surviving nodes are exactly the first
\* occurrences, in input order, of the distinct raw identities of the input,
\* and no two of them have equal der_bytes.
DuplicateInvariant ==
    pc \in {"build", "for", "find", "break", "done"} =>
        /\ certs = FirstOccurrences(input, <<>>)
        /\ \A a \in Nodes, b \in Nodes :
                a # b => certs[a].der_bytes # certs[b].der_bytes
        /\ \A p \in 1..Len(input) :
                \E a \in Nodes : certs[a].der_bytes = input[p].der_bytes

\* C5 case: pruning has returned after removing a later duplicate and
\* keeping a certificate with a unique identity.
DuplicateWitness ==
    /\ pc = "build"
    /\ Len(input) = 3
    /\ Len(certs) = 2
    /\ input[1].der_bytes = input[3].der_bytes

\* C6: is_issuer(A, B) is true if and only if A.subject equals B.issuer, and
\* B has no authorityKeyIdentifier or an empty key_identifier or A has a
\* subjectKeyIdentifier equal to it, and the signature verifies.
PredicateCorrectness ==
    query.returned =>
        LET A == query.cert_issuer
            B == query.cert_child
        IN  query.result <=>
                /\ A.subject = B.issuer
                /\ \/ AKI \notin DOMAIN B.extensions
                   \/ B.extensions[AKI].key_identifier = <<>>
                   \/ /\ SKI \in DOMAIN A.extensions
                      /\ A.extensions[SKI] = B.extensions[AKI].key_identifier
                /\ query.signature_ok

\* C6 case: is_issuer has returned true for a child that names a key
\* identifier, and has returned for a child with an empty one.
PredicateWitness ==
    /\ query.returned
    /\ query.result
    /\ AKI \in DOMAIN query.cert_child.extensions
    /\ query.cert_child.extensions[AKI].key_identifier # <<>>

\* C7 as claimed: if B's subject equals A's issuer, B carries no
\* authorityKeyIdentifier and the signature check of A over B succeeds, then
\* after compute_hierarchy B is in A.children and B.parents = {A}.
ScenarioBAsClaimed ==
    pc = "done" =>
        \A A \in Nodes, B \in Nodes :
            ( /\ A # B
              /\ certs[B].subject = certs[A].issuer
              /\ AKI \notin DOMAIN certs[B].extensions
              /\ MayAccept(A, B) )
            => (B \in children[A] /\ parents[B] = {A})

\* C7 amended: if A's subject equals B's issuer, B carries no
\* authorityKeyIdentifier and the signature check of A over B succeeds, then
\* the build phase creates the edge A->B; if the build phase gave B no other
\* parent and no path from B back to A, then after compute_hierarchy B is in
\* A.children and B.parents = {A}.
ScenarioB ==
    pc \in {"for", "find", "break", "done"} =>
        \A A \in Nodes, B \in Nodes :
            ( /\ A # B
              /\ certs[A].subject = certs[B].issuer
              /\ AKI \notin DOMAIN certs[B].extensions
              /\ Accepted(A, B) )
            => /\ <<A, B>> \in built
               /\ ( /\ pc = "done"
                    /\ \A X \in Nodes : <<X, B>> \in built => X = A
                    /\ A \notin Descendants(B, built) )
                  => (B \in children[A] /\ parents[B] = {A})

\* C7 case: compute_hierarchy has returned with the edge A->B for such a
\* pair, from an input of three certificates in which A has a parent too.
ScenarioBWitness ==
    /\ pc = "done"
    /\ \E A \in Nodes, B \in Nodes :
            /\ A # B
            /\ certs[A].subject = certs[B].issuer
            /\ AKI \notin DOMAIN certs[B].extensions
            /\ Accepted(A, B)
            /\ parents[B] = {A}
            /\ B \in children[A]

\* C8: from the end of the build phase on, no step adds an edge: the edges
\* after a step are among those before it and among those built.
MonotonicRepair ==
    [][Repairing => (Edges' \subseteq Edges /\ Edges' \subseteq built')]_vars

\* C8 case: the repair has deleted edges twice.
MonotonicRepairWitness ==
    /\ pc = "find"
    /\ Edges \subseteq built
    /\ Cardinality(built \ Edges) >= 2

\* C9: compute_hierarchy returns, and every call of break_loop deletes at
\* least one edge that was present and adds none.
Termination ==
    /\ <>(pc = "done")
    /\ [][pc = "break" => (Edges' \subseteq Edges /\ Edges' # Edges)]_vars

\* C9 case: compute_hierarchy has returned after its detect-and-break loop
\* ran more than once for one start node.
TerminationWitness ==
    /\ pc = "done"
    /\ \E n \in Nodes :
            Cardinality({e \in built \ Edges : e[1] = n \/ e[2] = n}) >= 2

Members(l) == {l[p] : p \in 1..Len(l)}
ParentCount(l, p) == Cardinality({e \in ParentEdges : e[2] = l[p]})
ChildCount(l, p) == Cardinality({e \in Edges : e[1] = l[p]})

\* The earliest position of the list whose count is the greatest.
EarliestGreatest(l, Count(_, _)) ==
    CHOOSE t \in 1..Len(l) :
        /\ \A u \in 1..Len(l) : Count(l, u) <= Count(l, t)
        /\ \A u \in 1..(t - 1) : Count(l, u) < Count(l, t)

\* The positions before and after p, going round the list.
CyclicPredecessor(l, p) == ((p + Len(l) - 2) % Len(l)) + 1
CyclicSuccessor(l, p) == (p % Len(l)) + 1

\* C11: when a member of the given cycle has more than one parent, break_loop
\* deletes the edge to T from its predecessor in the cycle and no other, T
\* being the earliest member with the greatest number of parents.
BranchOne ==
    [][ ( /\ pc = "break"
          /\ \E p \in 1..Len(loop) : ParentCount(loop, p) > 1 )
        => LET T == EarliestGreatest(loop, ParentCount)
               edge == <<loop[CyclicPredecessor(loop, T)], loop[T]>>
           IN  /\ edge \in Edges
               /\ Edges' = Edges \ {edge}
               /\ ParentEdges' = ParentEdges \ {edge} ]_vars

\* C11 case (Scenario D): break_loop has returned from the 2-cycle A, B in
\* which A had a third node as a further parent and B had only A: B->A is
\* gone, the further parent of A is kept.
BranchOneWitness ==
    /\ pc = "find"
    /\ \E A \in Nodes, B \in Nodes, X \in Nodes :
            /\ Cardinality({A, B, X}) = 3
            /\ {<<A, B>>, <<B, A>>, <<X, A>>} \subseteq built
            /\ \A e \in built : e[2] = B => e[1] = A
            /\ Edges = built \ {<<B, A>>}
            /\ X \in parents[A]

\* C12 as claimed: every certificate whose subject equals its issuer and
\* which validly signs itself satisfies is_self_signed.
SelfSignatureAsClaimed ==
    (query.returned /\ query.self) =>
        LET c == query.cert_issuer
        IN  (c.subject = c.issuer /\ query.signature_ok) => query.result

\* The certificate names no authority key identifier other than its own
\* subject key identifier.
OwnKeyIdentifier(c) ==
    \/ AKI \notin DOMAIN c.extensions
    \/ c.extensions[AKI].key_identifier = <<>>
    \/ /\ SKI \in DOMAIN c.extensions
       /\ c.extensions[SKI] = c.extensions[AKI].key_identifier

\* C12 amended: every certificate whose subject equals its issuer, whose
\* authorityKeyIdentifier is absent, empty or equal to its own
\* subjectKeyIdentifier, and which validly signs itself satisfies
\* is_self_signed; and is_self_signed(cert) is true exactly when the three
\* conditions of is_issuer hold of (cert, cert).
SelfSignature ==
    (query.returned /\ query.self) =>
        LET c == query.cert_issuer
        IN  /\ (c.subject = c.issuer /\ OwnKeyIdentifier(c) /\ query.signature_ok)
                => query.result
            /\ query.result =>
                (c.subject = c.issuer /\ OwnKeyIdentifier(c) /\ query.signature_ok)

\* C12 case: is_self_signed has returned true for a certificate that names
\* its own key identifier as its authority's.
SelfSignatureWitness ==
    /\ query.returned
    /\ query.self
    /\ query.result
    /\ AKI \in DOMAIN query.cert_issuer.extensions
    /\ query.cert_issuer.extensions[AKI].key_identifier # <<>>

\* The nodes reachable from the start node along the live children edges,
\* the start node included.
ReachableFrom(n) == {n} \cup Descendants(n, Edges)

\* C13 as claimed: every cycle the orchestrator breaks during the turn of
\* the start node s is reachable from s along the children edges live at
\* that moment, and once no cycle is reachable from s no further edge is
\* deleted in its turn.
DetectorFromStart ==
    pc = "break" =>
        /\ Members(loop) \subseteq ReachableFrom(cert)
        /\ \E n \in ReachableFrom(cert) : n \in Descendants(n, Edges)

\* C14: when no member of the given cycle has more than one parent and a
\* member has more than one child, break_loop deletes the edge from T to its
\* successor in the cycle, T being the earliest member with the greatest
\* number of children.
BranchTwo ==
    [][ ( /\ pc = "break"
          /\ \A p \in 1..Len(loop) : ParentCount(loop, p) <= 1
          /\ \E p \in 1..Len(loop) : ChildCount(loop, p) > 1 )
        => LET T == EarliestGreatest(loop, ChildCount)
               edge == <<loop[T], loop[CyclicSuccessor(loop, T)]>>
           IN  /\ edge \in Edges
               /\ edge \notin Edges'
               /\ edge \notin ParentEdges' ]_vars

\* C14 case: break_loop has returned from a 3-cycle A, B, C in which only B
\* had a second child D and no member a second parent: B->C is gone.
BranchTwoWitness ==
    /\ pc = "find"
    /\ \E A \in Nodes, B \in Nodes, C \in Nodes, D \in Nodes :
            /\ Cardinality({A, B, C, D}) = 4
            /\ built = {<<A, B>>, <<B, C>>, <<C, A>>, <<B, D>>}
            /\ <<B, C>> \notin Edges
            /\ <<B, D>> \in Edges

\* C15: at the end of the build phase the edge a->b exists, for distinct
\* surviving a and b, if and only if is_issuer(a, b) is true, each direction
\* on its own; the builder evaluates no self-pair, and no node is ever in
\* its own parents or children set.
BuilderResult ==
    /\ pc \in {"for", "find", "break", "done"} =>
            \A a \in Nodes, b \in Nodes :
                a # b => ( <<a, b>> \in built <=>
                             is_issuer(certs[a], certs[b], Accepted(a, b)) )
    /\ \A t \in verified : t[1] # t[2]
    /\ \A n \in DOMAIN children : n \notin children[n] /\ n \notin parents[n]

\* C15 case: the build phase has ended with both edges between two nodes
\* and a single edge between two others.
BuilderWitness ==
    /\ pc = "for"
    /\ \E a \in Nodes, b \in Nodes, c \in Nodes :
            /\ {<<a, b>>, <<b, a>>, <<a, c>>} \subseteq built
            /\ <<c, a>> \notin built
            /\ Accepted(a, c)
            /\ <<c, a, FALSE>> \in verified

\* C16 as claimed: every edge deletion of break_loop emits exactly one
\* warning, and the case number of the warning is the precedence branch
\* that chose the edge (1 most parents, 2 most children, 3 pure cycle).
WarningPerDeletion ==
    [][ (pc = "break" /\ Len(loop) >= 2)
        => LET w == warnings(loop, Links)
               deleted == Edges \ Edges'
           IN  /\ Len(w) = Cardinality(deleted)
               /\ \A e \in deleted :
                    \E p \in 1..Len(w) : e = <<w[p].issuer, w[p].issued>>
               /\ \A p \in 1..Len(w) : w[p].number = branch(loop, Links) ]_vars

\* C17: once the detect-and-break loop of the node at position k is over, no
\* directed cycle is reachable along the children edges from any node at
\* positions 1..k, in that state and in every later one.
OrchestratorProgress ==
    pc \in {"for", "find", "break", "done"} =>
        \A k \in Nodes :
            k < cert => \A n \in ReachableFrom(k) : n \notin Descendants(n, Edges)

\* C17 case: the turn of the first node is over and has broken a cycle; the
\* orchestrator is at the second node.
OrchestratorProgressWitness ==
    /\ pc = "find"
    /\ cert = 2
    /\ Edges # built
    /\ \A n \in ReachableFrom(1) : n \notin Descendants(n, Edges)

\* C18: nodes are removed only while every parents and children set is
\* empty, the collection does not change once pruning is over, and every
\* member of a parents or children set is a node of the collection.
NodeLifecycle ==
    /\ [](/\ DOMAIN children = Nodes
          /\ DOMAIN parents = Nodes
          /\ \A n \in Nodes : children[n] \subseteq Nodes /\ parents[n] \subseteq Nodes
          /\ local.children \subseteq Nodes /\ local.parents \subseteq Nodes)
    /\ [][certs' # certs => (pc = "prune" /\ Edges = {} /\ ParentEdges = {})]_vars
    /\ [][pc # "prune" => certs' = certs]_vars

\* C18 case: compute_hierarchy has returned with edges among the nodes that
\* are left of an input from which a duplicate was removed.
NodeLifecycleWitness ==
    /\ pc = "done"
    /\ Len(certs) < Len(input)
    /\ Edges # {}

\* C19: every list the orchestrator passes to break_loop has at least 2
\* pairwise distinct nodes of the collection, each element after the first
\* a child of the element before it and the first a child of the last; the
\* assertion of break_loop never fails.
BreakPrecondition ==
    /\ pc # "abort"
    /\ pc = "break" =>
        /\ Len(loop) >= 2
        /\ Members(loop) \subseteq Nodes
        /\ \A p \in 1..Len(loop), q \in 1..Len(loop) : p # q => loop[p] # loop[q]
        /\ \A p \in 2..Len(loop) : loop[p] \in children[loop[p - 1]]
        /\ loop[1] \in children[loop[Len(loop)]]

\* C19 case: find_loop has returned a list of three nodes that break_loop is
\* about to be called with.
BreakPreconditionWitness ==
    /\ pc = "break"
    /\ Len(loop) = 3
    /\ loop[1] \in children[loop[3]]

\* The edges of the cycle: from each member to its successor in the list.
CycleEdges(l) == {<<l[p], l[CyclicSuccessor(l, p)]>> : p \in 1..Len(l)}

\* C20: break_loop only deletes edges of the cycle it was given; every other
\* edge is left as it was, and so are the parents and children sets of the
\* nodes outside the cycle.
BreakFrame ==
    [][ pc = "break"
        => /\ \A e \in (Nodes \X Nodes) \ CycleEdges(loop) :
                /\ e \in Edges' <=> e \in Edges
                /\ e \in ParentEdges' <=> e \in ParentEdges
           /\ Edges' \subseteq Edges
           /\ ParentEdges' \subseteq ParentEdges
           /\ \A n \in Nodes \ Members(loop) :
                children'[n] = children[n] /\ parents'[n] = parents[n] ]_vars

\* C20 case: break_loop has returned from the only cycle A, B of a graph in
\* which a node outside it was a parent of A and another a child of B: both
\* outside edges are there, one edge of the cycle is gone.
BreakFrameWitness ==
    /\ pc = "find"
    /\ \E A \in Nodes, B \in Nodes, X \in Nodes, Y \in Nodes :
            /\ Cardinality({A, B, X, Y}) = 4
            /\ built = {<<A, B>>, <<B, A>>, <<X, A>>, <<B, Y>>}
            /\ Edges = built \ {<<B, A>>}
            /\ children[X] = {A}
            /\ parents[Y] = {B}

====
